---- MODULE Spec2Model ----
(***************************************************************************)
(* Task tracker "Challenges": the task lifecycle driven by TaskModal,      *)
(* TaskCard, RecurringTasksModal and App.handleUpdateTask, and the pure    *)
(* temporal helpers of utils.ts and Dashboard.                             *)
(*                                                                         *)
(* Instants are integers: milliseconds of local time since the local       *)
(* midnight that opens day 0, a Sunday.  Every local day has MsPerDay      *)
(* milliseconds (no DST change inside the modelled range).                 *)
(***************************************************************************)
EXTENDS Integers, Sequences, FiniteSets, TLC

----------------------------------------------------------------------------
(* Values *)

\* null / undefined for a Date-valued field
NULL == -1

\* TaskStatus
TODO == "TODO"
COMPLETED == "COMPLETED"
LATE == "LATE"
CANCELLED == "CANCELLED"
\* no pending status (pendingStatus === null)
NoStatus == "none"

\* recurringTime === "" / undefined
NoTime == [h |-> -1, m |-> -1]

\* no task (selectedTask === null; tasks.find() === undefined)
NoTask == [id |-> 0]
\* The ids of the tasks the model follows.  Every handler reads and writes
\* the one record its argument names; a task outside TaskIds appears only as
\* the task TaskModal may be showing.
TaskIds == {1}
OtherTask == [id |-> 2]

MsPerSecond == 1000
MsPerMinute == 60 * MsPerSecond
MsPerHour == 60 * MsPerMinute
MsPerDay == 1000 * 60 * 60 * 24

----------------------------------------------------------------------------
(* Bounds *)

\* the clock advances at most MaxTicks times
MaxTicks == 2
\* days 0..MaxDay are drawn as inputs of the date helpers
MaxDay == 2
\* seconds 0..MaxSeconds and bases 0..MaxElapsed are drawn as timer inputs
MaxSeconds == 2
MaxElapsed == 2

----------------------------------------------------------------------------
(* Date arithmetic (JavaScript Date in local time) *)

\* calendar day of an instant (getFullYear/getMonth/getDate as one number)
DayOf(t) == t \div MsPerDay
\* Date.getDay(): 0 = Sunday
GetDay(t) == DayOf(t) % 7
\* Date.getHours(), Date.getMinutes()
GetHours(t) == (t % MsPerDay) \div MsPerHour
GetMinutes(t) == (t % MsPerHour) \div MsPerMinute
\* new Date(y, m - 1, d, hh, mm, ss, ms)
MakeDate(day, hh, mm, ss, ms) ==
    day * MsPerDay + hh * MsPerHour + mm * MsPerMinute + ss * MsPerSecond + ms
\* Math.floor(a / b) and Math.ceil(a / b) for b > 0
FloorDiv(a, b) == a \div b
CeilDiv(a, b) == -((-a) \div b)

IsSameDay(d1, d2) == DayOf(d1) = DayOf(d2)

----------------------------------------------------------------------------
(* utils.ts: deadline helpers; now is the value of new Date() *)

IsDueSoon(deadline, now) ==
    IF deadline = NULL THEN FALSE
    ELSE LET diffTime == deadline - now
         IN  diffTime > 0 /\ diffTime <= MsPerDay

IsDueToday(deadline, now) ==
    IF deadline = NULL THEN FALSE ELSE IsSameDay(now, deadline)

IsPastDeadline(deadline, now) ==
    IF deadline = NULL THEN FALSE ELSE now > deadline

\* as GetDaysOverdue, rounding the day count down
GetDaysOverdueFloor(deadline, now) ==
    IF deadline = NULL THEN 0
    ELSE IF now <= deadline THEN 0
    ELSE LET days == FloorDiv(now - deadline, MsPerDay)
         IN  IF days = 0 THEN 1 ELSE days

GetDaysOverdue(deadline, now) ==
    IF deadline = NULL THEN 0
    ELSE IF now <= deadline THEN 0
    ELSE LET days == CeilDiv(now - deadline, MsPerDay)
         IN  IF days = 0 THEN 1 ELSE days

----------------------------------------------------------------------------
(* utils.ts: elapsed time and suspension *)

\* as CalculateCurrentTaskTime, with the difference taken the wrong way round
CalculateCurrentTaskTimeReversed(task, now) ==
    IF task.timerStartedAt = NULL THEN task.elapsedTimeSeconds
    ELSE task.elapsedTimeSeconds
           + FloorDiv(task.timerStartedAt - now, MsPerSecond)

CalculateCurrentTaskTime(task, now) ==
    IF task.timerStartedAt = NULL THEN task.elapsedTimeSeconds
    ELSE task.elapsedTimeSeconds
           + FloorDiv(now - task.timerStartedAt, MsPerSecond)

\* as IsTaskSuspended, without moving the bound to the end of its day
IsTaskSuspendedInstant(task, now) ==
    IF ~task.isRecurring \/ ~task.isSuspended THEN FALSE
    ELSE IF task.suspendedUntil = NULL THEN TRUE
    ELSE now <= task.suspendedUntil

IsTaskSuspended(task, now) ==
    IF ~task.isRecurring \/ ~task.isSuspended THEN FALSE
    ELSE IF task.suspendedUntil = NULL THEN TRUE
    ELSE LET suspensionEnd == MakeDate(DayOf(task.suspendedUntil), 23, 59, 59, 999)
         IN  now <= suspensionEnd

----------------------------------------------------------------------------
(* TaskModal.tsx: the updated task each handler hands to onUpdate *)

\* as IsLocked, never locking
IsLockedNever(task) == FALSE

IsLocked(task) == task.status = COMPLETED \/ task.status = CANCELLED

\* as ToggleTimer, pausing without writing the total
ToggleTimerNoSettle(task, now) ==
    IF task.timerStartedAt # NULL
    THEN [task EXCEPT !.timerStartedAt = NULL]
    ELSE [task EXCEPT !.timerStartedAt = now]

ToggleTimer(task, now) ==
    IF task.timerStartedAt # NULL
    THEN [task EXCEPT !.elapsedTimeSeconds = CalculateCurrentTaskTime(task, now),
                      !.timerStartedAt = NULL]
    ELSE [task EXCEPT !.timerStartedAt = now]

\* as ExecuteStatusUpdate, never writing the deadline
ExecuteStatusUpdateKeepsDeadline(task, newStatus, now) ==
    LET shouldRemovePriority == newStatus = COMPLETED \/ newStatus = CANCELLED
        updatedPriority == IF shouldRemovePriority THEN FALSE ELSE task.isPriority
        stop == (newStatus = COMPLETED \/ newStatus = CANCELLED)
                /\ task.timerStartedAt # NULL
    IN  [task EXCEPT !.status = newStatus,
                     !.isPriority = updatedPriority,
                     !.elapsedTimeSeconds =
                         IF stop THEN CalculateCurrentTaskTime(task, now) ELSE @,
                     !.timerStartedAt = IF stop THEN NULL ELSE @]

\* as ExecuteStatusUpdate, keeping the priority flag of the task
ExecuteStatusUpdateKeepsPriority(task, newStatus, now) ==
    LET deadline == IF newStatus = COMPLETED /\ task.deadline = NULL
                    THEN now ELSE task.deadline
        stop == (newStatus = COMPLETED \/ newStatus = CANCELLED)
                /\ task.timerStartedAt # NULL
    IN  [task EXCEPT !.status = newStatus,
                     !.deadline = deadline,
                     !.elapsedTimeSeconds =
                         IF stop THEN CalculateCurrentTaskTime(task, now) ELSE @,
                     !.timerStartedAt = IF stop THEN NULL ELSE @]

\* as ExecuteStatusUpdate, without the auto-stop of the timer
ExecuteStatusUpdateKeepsTimer(task, newStatus, now) ==
    LET shouldRemovePriority == newStatus = COMPLETED \/ newStatus = CANCELLED
        updatedPriority == IF shouldRemovePriority THEN FALSE ELSE task.isPriority
        deadline == IF newStatus = COMPLETED /\ task.deadline = NULL
                    THEN now ELSE task.deadline
    IN  [task EXCEPT !.status = newStatus,
                     !.isPriority = updatedPriority,
                     !.deadline = deadline]

ExecuteStatusUpdate(task, newStatus, now) ==
    LET shouldRemovePriority == newStatus = COMPLETED \/ newStatus = CANCELLED
        updatedPriority == IF shouldRemovePriority THEN FALSE ELSE task.isPriority
        deadline == IF newStatus = COMPLETED /\ task.deadline = NULL
                    THEN now ELSE task.deadline
        stop == (newStatus = COMPLETED \/ newStatus = CANCELLED)
                /\ task.timerStartedAt # NULL
    IN  [task EXCEPT !.status = newStatus,
                     !.isPriority = updatedPriority,
                     !.deadline = deadline,
                     !.elapsedTimeSeconds =
                         IF stop THEN CalculateCurrentTaskTime(task, now) ELSE @,
                     !.timerStartedAt = IF stop THEN NULL ELSE @]

\* as SaveEditing, keeping the suspension of the task when recurrence is off
SaveEditingKeepsSuspension(task, editIsRec) ==
    [task EXCEPT !.isRecurring = editIsRec,
                 !.recurringDays = IF editIsRec THEN task.recurringDays ELSE {},
                 !.recurringTime = IF editIsRec THEN task.recurringTime ELSE NoTime]

\* The edit form is re-synchronised from the task whenever the task object
\* changes and on startEditing; only the recurrence switch has an input, so
\* every other form field holds the value derived from the task.
SaveEditing(task, editIsRec) ==
    LET editRecurringDays == task.recurringDays
        editRecurringTime == task.recurringTime
        editIsSuspended == task.isSuspended
        editSuspensionType == IF task.suspendedUntil # NULL THEN "until" ELSE "indefinite"
        \* toInputDate(task.suspendedUntil), then new Date(y, m - 1, d)
        finalSuspendedUntil ==
            IF editIsSuspended /\ editSuspensionType = "until"
            THEN MakeDate(DayOf(task.suspendedUntil), 0, 0, 0, 0) ELSE NULL
    IN  [task EXCEPT !.isRecurring = editIsRec,
                     !.recurringDays = IF editIsRec THEN editRecurringDays ELSE {},
                     !.recurringTime = IF editIsRec THEN editRecurringTime ELSE NoTime,
                     !.isSuspended = IF editIsRec THEN editIsSuspended ELSE FALSE,
                     !.suspendedUntil =
                         IF editIsRec /\ editIsSuspended THEN finalSuspendedUntil ELSE NULL]

TogglePriority(task) == [task EXCEPT !.isPriority = ~task.isPriority]

\* val = NULL is the cleared date input; otherwise val is the chosen day
HandleDateChange(task, val) ==
    IF val = NULL THEN [task EXCEPT !.deadline = NULL]
    ELSE LET has == task.deadline # NULL
             hours == IF has THEN GetHours(task.deadline) ELSE 23
             minutes == IF has THEN GetMinutes(task.deadline) ELSE 59
             seconds == IF has THEN (task.deadline % MsPerMinute) \div MsPerSecond ELSE 59
         IN  [task EXCEPT !.deadline = MakeDate(val, hours, minutes, seconds, 0)]

\* newDate.setHours(h, m, 0) keeps the day and the milliseconds
HandleTimeChange(task, h, m) ==
    [task EXCEPT !.deadline =
        MakeDate(DayOf(task.deadline), h, m, 0, task.deadline % MsPerSecond)]

----------------------------------------------------------------------------
(* RecurringTasksModal.tsx; today is the new Date() of the last render *)

TodaysRecurringTasks(list, today) ==
    {i \in DOMAIN list : list[i].isRecurring /\ GetDay(today) \in list[i].recurringDays}

ToggleDailyCompletion(task, today, now) ==
    LET isCompletedToday == task.lastRecurringCompletion # NULL
                            /\ IsSameDay(task.lastRecurringCompletion, today)
    IN  [task EXCEPT !.lastRecurringCompletion = IF isCompletedToday THEN NULL ELSE now]

\* isLate(timeStr): the clock of now is past the hour and minute of timeStr
ModalIsLate(timeStr, now) ==
    IF timeStr = NoTime THEN FALSE
    ELSE IF GetHours(now) > timeStr.h THEN TRUE
    ELSE IF GetHours(now) = timeStr.h /\ GetMinutes(now) > timeStr.m THEN TRUE
    ELSE FALSE

\* the `late` of one row of todaysRecurringTasks
ModalRowLate(task, today, now) ==
    LET isDone == task.lastRecurringCompletion # NULL
                  /\ IsSameDay(task.lastRecurringCompletion, today)
    IN  ~isDone /\ ModalIsLate(task.recurringTime, now)

----------------------------------------------------------------------------
(* CreateTaskModal.tsx *)

SubmitDisabled(form) == form.isRecurring /\ form.selectedDays = {}

HandleSubmit(form) ==
    LET finalDeadline ==
            IF form.hasDeadline /\ form.deadlineDate # NULL /\ ~form.isRecurring
            THEN IF form.deadlineTime # NoTime
                 THEN MakeDate(form.deadlineDate, form.deadlineTime.h, form.deadlineTime.m, 0, 0)
                 ELSE MakeDate(form.deadlineDate, 23, 59, 59, 0)
            ELSE NULL
    IN  [deadline |-> finalDeadline,
         isPriority |-> form.isPriority,
         status |-> TODO,
         isRecurring |-> form.isRecurring,
         recurringDays |-> IF form.isRecurring THEN form.selectedDays ELSE {},
         recurringTime |-> IF form.isRecurring THEN form.recurringTime ELSE NoTime]

----------------------------------------------------------------------------
(* App.tsx: the stored record and the listener that reloads the task list *)

\* taskToSave of handleCreateTask
TaskToSave(newTaskData, key) ==
    [id |-> key,
     status |-> newTaskData.status,
     isPriority |-> newTaskData.isPriority,
     deadline |-> newTaskData.deadline,
     completedAt |-> NULL,
     elapsedTimeSeconds |-> 0,
     timerStartedAt |-> NULL,
     isRecurring |-> newTaskData.isRecurring,
     recurringDays |-> newTaskData.recurringDays,
     recurringTime |-> newTaskData.recurringTime,
     lastRecurringCompletion |-> NULL,
     isSuspended |-> FALSE,
     suspendedUntil |-> NULL]

\* tasks.find(t => t.id === id)
Find(list, id) == IF id \in DOMAIN list THEN list[id] ELSE NoTask

\* as NextCompletedAt, never clearing the completion instant
NextCompletedAtKept(existingTask, updatedTask, now) ==
    IF existingTask = NoTask THEN NULL
    ELSE LET wasCompleted == existingTask.status = COMPLETED
             isCompleted == updatedTask.status = COMPLETED
         IN  IF isCompleted /\ ~wasCompleted THEN now
             ELSE existingTask.completedAt

\* completedAt as handleUpdateTask derives it from the listed task
NextCompletedAt(existingTask, updatedTask, now) ==
    IF existingTask = NoTask THEN NULL
    ELSE LET wasCompleted == existingTask.status = COMPLETED
             isCompleted == updatedTask.status = COMPLETED
         IN  IF isCompleted /\ ~wasCompleted THEN now
             ELSE IF ~isCompleted /\ wasCompleted THEN NULL
             ELSE existingTask.completedAt

\* dataToUpdate of handleUpdateTask
DataToUpdate(list, updatedTask, now) ==
    [updatedTask EXCEPT
        !.completedAt = NextCompletedAt(Find(list, updatedTask.id), updatedTask, now)]

\* the onValue listener: every stored record becomes a listed task
LoadTasks(stored) == [i \in DOMAIN stored |-> stored[i]]

----------------------------------------------------------------------------
(* Dashboard.tsx: metrics helpers.  start and end are the filter bounds   *)
(* (NULL when the date input is empty); the new Date() reads of one        *)
(* metrics computation are one instant, now.                               *)

IsTodayInView(start, end, today) ==
    (start = NULL \/ start <= today) /\ (end = NULL \/ end >= today)

\* as IsRecurringLate, late from the cutoff minute on
IsRecurringLateAtCutoff(t, start, end, now) ==
    IF ~t.isRecurring \/ t.recurringTime = NoTime THEN FALSE
    ELSE IF IsTaskSuspended(t, now) THEN FALSE
    ELSE IF ~IsTodayInView(start, end, now) THEN FALSE
    ELSE IF GetDay(now) \notin t.recurringDays THEN FALSE
    ELSE IF t.lastRecurringCompletion # NULL
            /\ IsSameDay(t.lastRecurringCompletion, now) THEN FALSE
    ELSE LET h == t.recurringTime.h
             m == t.recurringTime.m
         IN  IF GetHours(now) > h THEN TRUE
             ELSE IF GetHours(now) = h /\ GetMinutes(now) >= m THEN TRUE
             ELSE FALSE

IsRecurringLate(t, start, end, now) ==
    IF ~t.isRecurring \/ t.recurringTime = NoTime THEN FALSE
    ELSE IF IsTaskSuspended(t, now) THEN FALSE
    ELSE IF ~IsTodayInView(start, end, now) THEN FALSE
    ELSE IF GetDay(now) \notin t.recurringDays THEN FALSE
    ELSE IF t.lastRecurringCompletion # NULL
            /\ IsSameDay(t.lastRecurringCompletion, now) THEN FALSE
    ELSE LET h == t.recurringTime.h
             m == t.recurringTime.m
         IN  IF GetHours(now) > h THEN TRUE
             ELSE IF GetHours(now) = h /\ GetMinutes(now) > m THEN TRUE
             ELSE FALSE

\* as MetricsLate, without the early return for a missing deadline
MetricsLateNoDeadlineGuard(t, start, end, now) ==
    IF t.isRecurring THEN IsRecurringLate(t, start, end, now)
    ELSE t.status = LATE \/ (t.status = TODO /\ t.deadline < now)

\* the predicate of metrics.late
MetricsLate(t, start, end, now) ==
    IF t.isRecurring THEN IsRecurringLate(t, start, end, now)
    ELSE IF t.deadline = NULL THEN FALSE
    ELSE t.status = LATE \/ (t.status = TODO /\ t.deadline < now)

----------------------------------------------------------------------------
(* Dashboard.tsx: filteredTasks.  The tasks come from the onValue listener; *)
(* the database keeps no empty list, so a listed task without weekdays has  *)
(* recurringDays undefined, which the empty set stands for.                 *)

\* windows of this many days or more skip the scan of the days
YearDays == 365

\* isCurrentView
IsCurrentView(start, end, now) ==
    (start = NULL \/ start <= now) /\ (end = NULL \/ end >= now)

\* t.isRecurring && t.recurringDays
TakesRecurringBranch(t) == t.isRecurring /\ t.recurringDays # {}

\* the while loop over the days of [start, end]
RECURSIVE ScanRange(_, _, _)
ScanRange(current, end, days) ==
    IF current > end THEN FALSE
    ELSE IF GetDay(current) \in days THEN TRUE
    ELSE ScanRange(current + MsPerDay, end, days)

\* the recurring branch of the filter
RecurringBelongs(t, start, end, now) ==
    IF IsCurrentView(start, end, now) /\ IsTaskSuspended(t, now) THEN FALSE
    ELSE IF /\ t.lastRecurringCompletion # NULL
            /\ (start = NULL \/ t.lastRecurringCompletion >= start)
            /\ (end = NULL \/ t.lastRecurringCompletion <= end) THEN TRUE
    ELSE IF start # NULL /\ end # NULL
         THEN LET diffDays == CeilDiv(end - start, MsPerDay)
              IN  IF diffDays >= YearDays THEN TRUE
                  ELSE ScanRange(start, end, t.recurringDays)
    ELSE TRUE

\* Step 2 of the recurring branch on whole days.  getFilterBounds puts start
\* at 00:00:00.000 of its day and end at 23:59:59.999 of its day, so for the
\* days startDay and endDay the difference end - start is
\* (endDay - startDay) * MsPerDay + MsPerDay - 1, whose Math.ceil in days is:
DiffDays(startDay, endDay) == (endDay - startDay) + 1

\* the while loop: current runs over the days startDay..endDay and the loop
\* returns true at the first day whose weekday is in days, false after the last
ScanDays(startDay, endDay, days) ==
    \E day \in startDay..endDay : (day % 7) \in days

\* `if (start && end) { ... }` for a task in the recurring branch
ScheduledInRange(days, startDay, endDay) ==
    IF DiffDays(startDay, endDay) >= YearDays THEN TRUE
    ELSE ScanDays(startDay, endDay, days)

\* as CompletedBelongs, falling back on the deadline when completedAt is absent
CompletedBelongsByDeadline(t, start, end) ==
    LET cDate == IF t.completedAt = NULL THEN t.deadline ELSE t.completedAt
    IN  IF cDate = NULL THEN FALSE
        ELSE IF start # NULL /\ cDate < start THEN FALSE
        ELSE IF end # NULL /\ cDate > end THEN FALSE
        ELSE TRUE

\* 1. completed tasks
CompletedBelongs(t, start, end) ==
    IF t.completedAt = NULL THEN FALSE
    ELSE IF start # NULL /\ t.completedAt < start THEN FALSE
    ELSE IF end # NULL /\ t.completedAt > end THEN FALSE
    ELSE TRUE

\* 2. cancelled tasks
CancelledBelongs(t, start, end) ==
    LET d == IF t.deadline # NULL THEN t.deadline ELSE t.createdAt
    IN  IF start # NULL /\ d < start THEN FALSE
        ELSE IF end # NULL /\ d > end THEN FALSE
        ELSE TRUE

\* as ActiveCurrentBelongs, hiding what fell due before the window
ActiveCurrentBelongsInRange(t, start, end) ==
    IF t.deadline # NULL
    THEN IF end # NULL /\ t.deadline > end THEN FALSE
         ELSE IF start # NULL /\ t.deadline < start THEN FALSE
         ELSE TRUE
    ELSE TRUE

\* 3. active tasks, current view
ActiveCurrentBelongs(t, start, end) ==
    IF t.deadline # NULL
    THEN IF end # NULL /\ t.deadline > end THEN FALSE ELSE TRUE
    ELSE TRUE

\* as ActiveHistoricBelongs, keeping what fell due before the window
ActiveHistoricBelongsOverdue(t, start, end) ==
    LET d == IF t.deadline # NULL THEN t.deadline ELSE t.createdAt
    IN  IF end # NULL /\ d > end THEN FALSE
        ELSE TRUE

\* 3. active tasks, historic or future view
ActiveHistoricBelongs(t, start, end) ==
    LET d == IF t.deadline # NULL THEN t.deadline ELSE t.createdAt
    IN  IF start # NULL /\ d < start THEN FALSE
        ELSE IF end # NULL /\ d > end THEN FALSE
        ELSE TRUE

\* the predicate of filteredTasks: does t belong to the window
FilterBelongs(t, start, end, now) ==
    IF start = NULL /\ end = NULL THEN TRUE
    ELSE IF TakesRecurringBranch(t) THEN RecurringBelongs(t, start, end, now)
    ELSE IF t.status = COMPLETED THEN CompletedBelongs(t, start, end)
    ELSE IF t.status = CANCELLED THEN CancelledBelongs(t, start, end)
    ELSE IF IsCurrentView(start, end, now) THEN ActiveCurrentBelongs(t, start, end)
    ELSE ActiveHistoricBelongs(t, start, end)

----------------------------------------------------------------------------
(* Dashboard.tsx: metrics of the filtered set *)

\* tasks.filter(...) of filteredTasks
FilteredTasks(list, start, end, now) ==
    LET Belongs(t) == FilterBelongs(t, start, end, now)
    IN  SelectSeq(list, Belongs)

IsRecurringDoneInPeriod(t, start, end) ==
    IF ~t.isRecurring \/ t.lastRecurringCompletion = NULL THEN FALSE
    ELSE IF start # NULL /\ t.lastRecurringCompletion < start THEN FALSE
    ELSE IF end # NULL /\ t.lastRecurringCompletion > end THEN FALSE
    ELSE TRUE

MetricsTotal(taskList) == Len(taskList)

RecurringCompletedCount(taskList, start, end) ==
    LET Done(t) == IsRecurringDoneInPeriod(t, start, end)
    IN  Len(SelectSeq(taskList, Done))

StandardCompletedCount(taskList) ==
    LET Completed(t) == t.status = COMPLETED
    IN  Len(SelectSeq(taskList, Completed))

MetricsCompleted(taskList, start, end) ==
    StandardCompletedCount(taskList) + RecurringCompletedCount(taskList, start, end)

LateCount(taskList, start, end, now) ==
    LET Late(t) == MetricsLate(t, start, end, now)
    IN  Len(SelectSeq(taskList, Late))

\* the predicate of statusDist.todo; today is the new Date() at the top of
\* metrics and now the new Date() read while this predicate runs
StatusDistTodo(t, start, end, today, now) ==
    IF t.status = COMPLETED \/ t.status = CANCELLED THEN FALSE
    ELSE IF t.isRecurring
         THEN LET isDone == IsRecurringDoneInPeriod(t, start, end)
                  isLate == IsRecurringLate(t, start, end, now)
              IN  IF isDone \/ isLate THEN FALSE
                  ELSE IF IsTaskSuspended(t, now) THEN FALSE
                  ELSE IF IsTodayInView(start, end, today) /\ t.recurringDays # {}
                       THEN GetDay(today) \in t.recurringDays
                  ELSE TRUE
    ELSE IF t.deadline = NULL THEN t.status = TODO
    ELSE LET isStandardLate == t.status = LATE
                               \/ (t.status = TODO /\ t.deadline < now)
         IN  t.status = TODO /\ ~isStandardLate

----------------------------------------------------------------------------
(* Dashboard.tsx: completionRate.  JavaScript numbers are IEEE 754 doubles: *)
(* a positive double is a significand of Significand bits, most significant *)
(* first and leading 1, and the exponent e of its last bit; every operation *)
(* rounds its exact result to the nearest double, ties to even.             *)

Significand == 53

Zero == [m |-> << >>, e |-> 0]

\* the k with t * 2^k <= c < t * 2^(k+1), for c, t > 0
RECURSIVE BinaryExponent(_, _)
BinaryExponent(c, t) ==
    IF c < t THEN BinaryExponent(2 * c, t) - 1
    ELSE IF c >= 2 * t THEN BinaryExponent(c, 2 * t) + 1
    ELSE 0

RECURSIVE Pow2(_)
Pow2(n) == IF n = 0 THEN 1 ELSE 2 * Pow2(n - 1)

\* bit sequences are handled eight bits at a time
Chunk == 8
Radix == Pow2(Chunk)
\* chunks of quotient bits computed after the leading 1: 56 >= Significand + 1
DivChunks == 7

\* the bits of a sequence of base-Radix digits
DigitsToBits(digits) ==
    [i \in 1..(Chunk * Len(digits)) |->
        (digits[((i - 1) \div Chunk) + 1] \div Pow2(Chunk - 1 - ((i - 1) % Chunk))) % 2]

\* the value of the first n bits of a short bit sequence
RECURSIVE BitsValue(_, _)
BitsValue(bits, n) == IF n = 0 THEN 0 ELSE 2 * BitsValue(bits, n - 1) + bits[n]

\* the base-Radix digits of a bit sequence, padded with zeros on the left
BitsToDigits(bits) ==
    LET n == Len(bits)
        nd == (n + Chunk - 1) \div Chunk
        pad == Chunk * nd - n
        padded == [i \in 1..(Chunk * nd) |-> IF i <= pad THEN 0 ELSE bits[i - pad]]
    IN  [j \in 1..nd |-> BitsValue(SubSeq(padded, Chunk * (j - 1) + 1, Chunk * j), Chunk)]

\* a bit sequence without its leading zeros
StripZeros(bits) ==
    IF \A i \in 1..Len(bits) : bits[i] = 0 THEN << >>
    ELSE LET first == CHOOSE i \in 1..Len(bits) :
                          bits[i] = 1 /\ \A j \in 1..(i - 1) : bits[j] = 0
         IN  SubSeq(bits, first, Len(bits))

\* long division in base Radix: the remainder after j digits of r / den
RECURSIVE DivRem(_, _, _)
DivRem(r, den, j) == IF j = 0 THEN r ELSE (DivRem(r, den, j - 1) * Radix) % den

\* the first n digits of r / den, for r < den
DivDigits(r, den, n) ==
    [j \in 1..n |-> (DivRem(r, den, j - 1) * Radix) \div den]

\* bits + 1; one bit longer when every bit is 1
Increment(bits) ==
    IF \A i \in 1..Len(bits) : bits[i] = 1
    THEN <<1>> \o [i \in 1..Len(bits) |-> 0]
    ELSE LET last == CHOOSE i \in 1..Len(bits) :
                         bits[i] = 0 /\ \A j \in (i + 1)..Len(bits) : bits[j] = 1
         IN  [i \in 1..Len(bits) |->
                 IF i < last THEN bits[i] ELSE IF i = last THEN 1 ELSE 0]

\* digits * f for a small factor f: the carry out of digit i, and the product
RECURSIVE MulCarry(_, _, _)
MulCarry(digits, f, i) ==
    IF i > Len(digits) THEN 0
    ELSE (digits[i] * f + MulCarry(digits, f, i + 1)) \div Radix

MulDigits(digits, f) ==
    <<MulCarry(digits, f, 1)>>
      \o [i \in 1..Len(digits) |-> (digits[i] * f + MulCarry(digits, f, i + 1)) % Radix]

\* bits * f for a small factor f
MulBits(bits, f) == StripZeros(DigitsToBits(MulDigits(BitsToDigits(bits), f)))

\* the double nearest to bits * 2^e (+ something below the last bit when
\* sticky), ties to even; bits has at least Significand bits and leading 1
RoundToDouble(bits, e, sticky) ==
    LET n == Len(bits)
        keep == SubSeq(bits, 1, Significand)
        rest == SubSeq(bits, Significand + 1, n)
        guard == IF rest = << >> THEN 0 ELSE rest[1]
        below == sticky \/ \E i \in 2..Len(rest) : rest[i] = 1
        up == guard = 1 /\ (below \/ keep[Significand] = 1)
        rounded == IF up THEN Increment(keep) ELSE keep
    IN  IF Len(rounded) > Significand
        THEN [m |-> SubSeq(rounded, 1, Significand), e |-> e + (n - Significand) + 1]
        ELSE [m |-> rounded, e |-> e + (n - Significand)]

\* c / t for integers c >= 0, t > 0
DoubleDiv(c, t) ==
    IF c = 0 THEN Zero
    ELSE LET k == BinaryExponent(c, t)
             num == IF k < 0 THEN c * Pow2(-k) ELSE c
             den == IF k < 0 THEN t ELSE t * Pow2(k)
         IN  RoundToDouble(<<1>> \o DigitsToBits(DivDigits(num - den, den, DivChunks)),
                           k - Chunk * DivChunks,
                           DivRem(num - den, den, DivChunks) # 0)

\* x * f for a double x and a small integer f
DoubleMul(x, f) ==
    IF x = Zero THEN Zero ELSE RoundToDouble(MulBits(x.m, f), x.e, FALSE)

\* Math.round of a double x with 0 <= x < 2^Significand: the nearest integer,
\* a fraction of one half going up
MathRound(x) ==
    IF x = Zero THEN 0
    ELSE LET f == -x.e
             whole == IF f >= Significand THEN << >>
                      ELSE IF f <= 0 THEN x.m ELSE SubSeq(x.m, 1, Significand - f)
             half == IF f <= 0 \/ f > Significand THEN 0 ELSE x.m[Significand - f + 1]
         IN  BitsValue(whole, Len(whole)) + half

CompletionRate(completed, total) ==
    IF total > 0 THEN MathRound(DoubleMul(DoubleDiv(completed, total), 100)) ELSE 0

----------------------------------------------------------------------------
(* State *)

VARIABLES
    db,                   \* stored task records (Realtime Database, tasks/<id>)
    tasks,                \* App state: the task list the listener loaded
    selectedTask,         \* App state: the task shown by TaskModal
    isTaskModalOpen,      \* App state
    isRecurringModalOpen, \* App state
    recurToday,           \* RecurringTasksModal: `today` of its last render
    pendingStatus,        \* TaskModal state: status awaiting confirmation
    isEditing,            \* TaskModal state
    editIsRecurring,      \* TaskModal state: the recurrence switch of the form
    clock,                \* the instant new Date() / Date.now() returns
    ticks,                \* number of clock advances so far
    autoStopped,          \* history: executeStatusUpdate has stopped a running timer
    priorityCleared,      \* history: executeStatusUpdate has cleared a set priority flag
    probe,                \* inputs of a pure helper under evaluation
    out                   \* the helper's results

vars == <<db, tasks, selectedTask, isTaskModalOpen, isRecurringModalOpen,
          recurToday, pendingStatus, isEditing, editIsRecurring, clock, ticks,
          autoStopped, priorityCleared, probe, out>>

uiVars == <<selectedTask, isTaskModalOpen, isRecurringModalOpen, recurToday,
            pendingStatus, isEditing, editIsRecurring>>
probeVars == <<probe, out>>
appVars == <<db, tasks, selectedTask, isTaskModalOpen, isRecurringModalOpen,
             recurToday, pendingStatus, isEditing, editIsRecurring, clock, ticks,
             autoStopped, priorityCleared>>

NoProbe == [kind |-> "none"]

AppInit ==
    /\ db = << >>
    /\ tasks = << >>
    /\ selectedTask = NoTask
    /\ isTaskModalOpen = FALSE
    /\ isRecurringModalOpen = FALSE
    /\ recurToday = NULL
    /\ pendingStatus = NoStatus
    /\ isEditing = FALSE
    /\ editIsRecurring = FALSE
    /\ clock = 0
    /\ ticks = 0
    /\ autoStopped = FALSE
    /\ priorityCleared = FALSE

----------------------------------------------------------------------------
(* Inputs of the lifecycle *)

TickDeltas == {1500, MsPerDay}
FormDeadlineDates == {NULL, 1}
FormDays == {{}, {0}, {0, 1}}
FormTimes == {NoTime, [h |-> 0, m |-> 0]}
DateInputs == {NULL, 1}
TimeInputs == {[h |-> 23, m |-> 59]}
selectableStatuses == {TODO, COMPLETED, CANCELLED}

CreateForms ==
    [hasDeadline : BOOLEAN, deadlineDate : FormDeadlineDates, deadlineTime : {NoTime},
     isPriority : BOOLEAN, isRecurring : BOOLEAN, selectedDays : FormDays,
     recurringTime : FormTimes]

----------------------------------------------------------------------------
(* App.tsx handlers *)

\* handleCreateTask: push() a new key, set() the record; the listener reloads
HandleCreateTask(newTaskData) ==
    /\ db' = Append(db, TaskToSave(newTaskData, Len(db) + 1))
    /\ tasks' = LoadTasks(db')

\* handleUpdateTask: keep the modal's copy, write the record; the listener
\* reloads the list, which re-renders RecurringTasksModal when it is open
HandleUpdateTask(updatedTask) ==
    /\ selectedTask' = IF selectedTask # NoTask /\ selectedTask.id = updatedTask.id
                       THEN updatedTask ELSE selectedTask
    /\ db' = [db EXCEPT ![updatedTask.id] = DataToUpdate(tasks, updatedTask, clock)]
    /\ tasks' = LoadTasks(db')
    /\ recurToday' = IF isRecurringModalOpen THEN clock ELSE recurToday
    \* TaskModal's effect on [task]: a new task object resets the form
    /\ editIsRecurring' = IF selectedTask # NoTask /\ selectedTask.id = updatedTask.id
                          THEN updatedTask.isRecurring ELSE editIsRecurring

NoModal == ~isTaskModalOpen /\ ~isRecurringModalOpen

Tick ==
    /\ ticks < MaxTicks
    /\ \E d \in TickDeltas : clock' = clock + d
    /\ ticks' = ticks + 1
    /\ UNCHANGED <<db, tasks, uiVars, autoStopped, priorityCleared, probeVars>>

\* CreateTaskModal: fill the form and submit it
CreateTask ==
    /\ NoModal
    /\ Len(db) + 1 \in TaskIds
    /\ \E form \in CreateForms :
          /\ ~SubmitDisabled(form)
          /\ HandleCreateTask(HandleSubmit(form))
    /\ UNCHANGED <<uiVars, clock, ticks, autoStopped, priorityCleared, probeVars>>

\* TaskCard onClick
HandleTaskClick ==
    /\ NoModal
    /\ \E i \in DOMAIN tasks : selectedTask' = tasks[i]
    /\ isTaskModalOpen' = TRUE
    \* the form is synchronised from the task shown
    /\ editIsRecurring' = selectedTask'.isRecurring
    /\ UNCHANGED <<db, tasks, isRecurringModalOpen, recurToday, pendingStatus,
                   isEditing, clock, ticks, autoStopped, priorityCleared, probeVars>>

\* TaskCard onClick on a task the model does not follow
HandleTaskClickOther ==
    /\ NoModal
    /\ selectedTask' = OtherTask
    /\ isTaskModalOpen' = TRUE
    /\ UNCHANGED <<db, tasks, isRecurringModalOpen, recurToday, pendingStatus,
                   isEditing, editIsRecurring, clock, ticks, autoStopped, priorityCleared, probeVars>>

\* TaskCard star
HandleTogglePriority ==
    /\ NoModal
    /\ \E i \in DOMAIN tasks : HandleUpdateTask(TogglePriority(tasks[i]))
    /\ UNCHANGED <<isTaskModalOpen, isRecurringModalOpen, pendingStatus,
                   isEditing, clock, ticks, autoStopped, priorityCleared, probeVars>>

\* header button "Rotinas": RecurringTasksModal renders and reads today
OpenRecurringModal ==
    /\ NoModal
    /\ isRecurringModalOpen' = TRUE
    /\ recurToday' = clock
    /\ UNCHANGED <<db, tasks, selectedTask, isTaskModalOpen, pendingStatus,
                   isEditing, editIsRecurring, clock, ticks, autoStopped, priorityCleared, probeVars>>

CloseRecurringModal ==
    /\ isRecurringModalOpen
    /\ isRecurringModalOpen' = FALSE
    /\ recurToday' = NULL
    /\ UNCHANGED <<db, tasks, selectedTask, isTaskModalOpen,
                   pendingStatus, isEditing, editIsRecurring, clock, ticks, autoStopped, priorityCleared, probeVars>>

\* RecurringTasksModal, view "today": click on a listed task
ToggleDaily ==
    /\ isRecurringModalOpen
    /\ \E i \in TodaysRecurringTasks(tasks, recurToday) :
          HandleUpdateTask(ToggleDailyCompletion(tasks[i], recurToday, clock))
    /\ UNCHANGED <<isTaskModalOpen, isRecurringModalOpen, pendingStatus,
                   isEditing, clock, ticks, autoStopped, priorityCleared, probeVars>>

\* RecurringTasksModal, view "all": the pencil of a recurring task
OnEditTask ==
    /\ isRecurringModalOpen
    /\ \E i \in DOMAIN tasks :
          /\ tasks[i].isRecurring
          /\ selectedTask' = tasks[i]
    /\ isRecurringModalOpen' = FALSE
    /\ isTaskModalOpen' = TRUE
    /\ recurToday' = NULL
    /\ editIsRecurring' = selectedTask'.isRecurring
    /\ UNCHANGED <<db, tasks, pendingStatus, isEditing, clock, ticks, autoStopped, priorityCleared, probeVars>>

----------------------------------------------------------------------------
(* TaskModal.tsx handlers; task is selectedTask *)

ModalShown == isTaskModalOpen /\ selectedTask.id \in TaskIds
ModalRest == <<isTaskModalOpen, isRecurringModalOpen, clock, ticks, probeVars>>
ModalRestH == <<ModalRest, autoStopped, priorityCleared>>

HandleClose ==
    /\ isTaskModalOpen
    /\ pendingStatus' = NoStatus
    /\ isEditing' = FALSE
    /\ isTaskModalOpen' = FALSE
    /\ UNCHANGED <<db, tasks, selectedTask, isRecurringModalOpen, recurToday,
                   editIsRecurring, clock, ticks, autoStopped, priorityCleared, probeVars>>

\* star of the header: disabled={isLocked || !!pendingStatus || isEditing}
ModalTogglePriority ==
    /\ ModalShown
    /\ ~(IsLocked(selectedTask) \/ pendingStatus # NoStatus \/ isEditing)
    /\ HandleUpdateTask(TogglePriority(selectedTask))
    /\ UNCHANGED <<pendingStatus, isEditing, ModalRestH>>

\* pencil: shown when !isEditing, disabled={isLocked}
StartEditing ==
    /\ ModalShown
    /\ ~isEditing
    /\ ~IsLocked(selectedTask)
    /\ isEditing' = TRUE
    /\ editIsRecurring' = selectedTask.isRecurring
    /\ UNCHANGED <<db, tasks, selectedTask, recurToday, pendingStatus, ModalRestH>>

CancelEditing ==
    /\ ModalShown
    /\ isEditing
    /\ isEditing' = FALSE
    /\ UNCHANGED <<db, tasks, selectedTask, recurToday, pendingStatus,
                   editIsRecurring, ModalRestH>>

\* the recurrence switch of the form
SetEditIsRecurring ==
    /\ ModalShown
    /\ isEditing
    /\ editIsRecurring' = ~editIsRecurring
    /\ UNCHANGED <<db, tasks, selectedTask, recurToday, pendingStatus, isEditing,
                   ModalRestH>>

SaveEdit ==
    /\ ModalShown
    /\ isEditing
    /\ HandleUpdateTask(SaveEditing(selectedTask, editIsRecurring))
    /\ isEditing' = FALSE
    /\ UNCHANGED <<pendingStatus, ModalRestH>>

\* timer button: shown when !isEditing, disabled={isLocked || !!pendingStatus}
TimerButton ==
    /\ ModalShown
    /\ ~isEditing
    /\ ~(IsLocked(selectedTask) \/ pendingStatus # NoStatus)
    /\ HandleUpdateTask(ToggleTimer(selectedTask, clock))
    /\ UNCHANGED <<pendingStatus, isEditing, ModalRestH>>

\* status buttons of the footer: shown when no status is pending and the
\* form is closed; disabled={isCurrentStatus || isLocked}
InitiateStatusChange ==
    /\ ModalShown
    /\ pendingStatus = NoStatus
    /\ ~isEditing
    /\ \E newStatus \in selectableStatuses :
          /\ ~(selectedTask.status = newStatus \/ IsLocked(selectedTask))
          /\ IF newStatus = COMPLETED \/ newStatus = CANCELLED
             THEN /\ pendingStatus' = newStatus
                  /\ UNCHANGED <<db, tasks, selectedTask, recurToday, editIsRecurring>>
             ELSE /\ HandleUpdateTask(ExecuteStatusUpdate(selectedTask, newStatus, clock))
                  /\ pendingStatus' = NoStatus
    /\ UNCHANGED <<isEditing, ModalRestH>>

\* "Confirmar" of the confirmation bar
ConfirmStatusChange ==
    /\ ModalShown
    /\ pendingStatus # NoStatus
    /\ HandleUpdateTask(ExecuteStatusUpdate(selectedTask, pendingStatus, clock))
    /\ pendingStatus' = NoStatus
    /\ autoStopped' = (autoStopped \/ selectedTask.timerStartedAt # NULL)
    /\ priorityCleared' = (priorityCleared \/ selectedTask.isPriority)
    /\ UNCHANGED <<isEditing, ModalRest>>

CancelStatusChange ==
    /\ ModalShown
    /\ pendingStatus # NoStatus
    /\ pendingStatus' = NoStatus
    /\ UNCHANGED <<db, tasks, selectedTask, recurToday, isEditing,
                   editIsRecurring, ModalRestH>>

\* date input: disabled={isLocked || !!pendingStatus || isEditing}
DateInput ==
    /\ ModalShown
    /\ ~(IsLocked(selectedTask) \/ pendingStatus # NoStatus \/ isEditing)
    /\ \E val \in DateInputs : HandleUpdateTask(HandleDateChange(selectedTask, val))
    /\ UNCHANGED <<pendingStatus, isEditing, ModalRestH>>

\* time input: rendered when the task has a deadline,
\* disabled={isLocked || !!pendingStatus}
TimeInput ==
    /\ ModalShown
    /\ selectedTask.deadline # NULL
    /\ ~(IsLocked(selectedTask) \/ pendingStatus # NoStatus)
    /\ \E val \in TimeInputs :
          HandleUpdateTask(HandleTimeChange(selectedTask, val.h, val.m))
    /\ UNCHANGED <<pendingStatus, isEditing, ModalRestH>>

----------------------------------------------------------------------------
(* The application *)

Init == AppInit /\ probe = NoProbe /\ out = NoProbe

Next ==
    \/ Tick
    \/ CreateTask
    \/ HandleTaskClick
    \/ HandleTaskClickOther
    \/ HandleTogglePriority
    \/ OpenRecurringModal
    \/ CloseRecurringModal
    \/ ToggleDaily
    \/ OnEditTask
    \/ HandleClose
    \/ ModalTogglePriority
    \/ StartEditing
    \/ CancelEditing
    \/ SetEditIsRecurring
    \/ SaveEdit
    \/ TimerButton
    \/ InitiateStatusChange
    \/ ConfirmStatusChange
    \/ CancelStatusChange
    \/ DateInput
    \/ TimeInput

Spec == Init /\ [][Next]_vars

----------------------------------------------------------------------------
(* The storage handlers on their own: handleCreateTask, then handleUpdateTask *)
(* with any status for the updated task                                      *)

Statuses == {TODO, COMPLETED, LATE, CANCELLED}

StoreCreate ==
    /\ Len(db) + 1 \in TaskIds
    /\ \E form \in CreateForms :
          /\ ~SubmitDisabled(form)
          /\ HandleCreateTask(HandleSubmit(form))
    /\ UNCHANGED <<uiVars, clock, ticks, autoStopped, priorityCleared, probeVars>>

StoreUpdate ==
    /\ \E i \in DOMAIN tasks, st \in Statuses :
          /\ HandleUpdateTask([tasks[i] EXCEPT !.status = st])
          /\ out' = [kind |-> "update", from |-> tasks[i].status, to |-> st]
    /\ UNCHANGED <<isTaskModalOpen, isRecurringModalOpen, pendingStatus,
                   isEditing, clock, ticks, autoStopped, priorityCleared, probe>>

StoreNext == Tick \/ StoreCreate \/ StoreUpdate

SpecStore == Init /\ [][StoreNext]_vars

----------------------------------------------------------------------------
(* The elapsed-time helper on drawn inputs *)

TimerOffsets == {0, 1, 500, 999}
TimerInstants == {sec * MsPerSecond + o : sec \in 0..MaxSeconds, o \in TimerOffsets}
TimerTasks == [elapsedTimeSeconds : 0..MaxElapsed, timerStartedAt : {NULL} \cup TimerInstants]

TimerInit ==
    /\ AppInit
    /\ probe \in [kind : {"timer"}, task : TimerTasks, now1 : TimerInstants,
                  now2 : TimerInstants]
    /\ probe.now1 <= probe.now2
    /\ out = NoProbe

EvalTimer ==
    /\ probe.kind = "timer"
    /\ out = NoProbe
    /\ out' = [kind |-> "timer",
               v1 |-> CalculateCurrentTaskTime(probe.task, probe.now1),
               v2 |-> CalculateCurrentTaskTime(probe.task, probe.now2)]
    /\ UNCHANGED <<appVars, probe>>

SpecTimer == TimerInit /\ [][EvalTimer]_vars

----------------------------------------------------------------------------
(* toggleTimer pressed again and again on one task; probe holds the task,   *)
(* the instant of the last press and, as history, the running intervals     *)
(* that were closed: their number, the sum of their whole seconds and the   *)
(* sum of their milliseconds                                                *)

MaxToggles == 4
ToggleDelays == {0, 1, 999, MsPerSecond, 1500, 2500}

ToggleInit ==
    /\ AppInit
    /\ probe = [kind |-> "toggle",
                task |-> [elapsedTimeSeconds |-> 0, timerStartedAt |-> NULL],
                now |-> 0, presses |-> 0, intervals |-> 0, seconds |-> 0, ms |-> 0]
    /\ out = NoProbe

PressTimer ==
    /\ probe.kind = "toggle"
    /\ probe.presses < MaxToggles
    /\ \E delay \in ToggleDelays :
          LET now == probe.now + delay
              start == probe.task.timerStartedAt
              stops == start # NULL
          IN  probe' = [probe EXCEPT
                          !.task = ToggleTimer(probe.task, now),
                          !.now = now,
                          !.presses = @ + 1,
                          !.intervals = IF stops THEN @ + 1 ELSE @,
                          !.seconds = IF stops
                                      THEN @ + FloorDiv(now - start, MsPerSecond)
                                      ELSE @,
                          !.ms = IF stops THEN @ + (now - start) ELSE @]
    /\ UNCHANGED <<appVars, out>>

SpecToggle == ToggleInit /\ [][PressTimer]_vars

----------------------------------------------------------------------------
(* The deadline helpers and the late predicate on drawn inputs *)

DayOffsets == {0, 1, 8 * MsPerHour, 9 * MsPerHour, MsPerDay - 1}
DayInstants == {day * MsPerDay + o : day \in 0..MaxDay, o \in DayOffsets}

DeadlineInit ==
    /\ AppInit
    /\ probe \in [kind : {"deadline"},
                  task : [isRecurring : {FALSE}, status : Statuses,
                          deadline : {NULL} \cup DayInstants],
                  now : DayInstants]
    /\ out = NoProbe

EvalDeadline ==
    /\ probe.kind = "deadline"
    /\ out = NoProbe
    /\ out' = [kind |-> "deadline",
               soon |-> IsDueSoon(probe.task.deadline, probe.now),
               today |-> IsDueToday(probe.task.deadline, probe.now),
               past |-> IsPastDeadline(probe.task.deadline, probe.now),
               days |-> GetDaysOverdue(probe.task.deadline, probe.now),
               late |-> MetricsLate(probe.task, NULL, NULL, probe.now)]
    /\ UNCHANGED <<appVars, probe>>

SpecDeadline == DeadlineInit /\ [][EvalDeadline]_vars

----------------------------------------------------------------------------
(* The suspension helper on drawn inputs *)

SuspendInit ==
    /\ AppInit
    /\ probe \in [kind : {"suspend"},
                  task : [isRecurring : BOOLEAN, isSuspended : BOOLEAN,
                          suspendedUntil : {NULL} \cup DayInstants],
                  now : DayInstants]
    /\ out = NoProbe

EvalSuspend ==
    /\ probe.kind = "suspend"
    /\ out = NoProbe
    /\ out' = [kind |-> "suspend", suspended |-> IsTaskSuspended(probe.task, probe.now)]
    /\ UNCHANGED <<appVars, probe>>

SpecSuspend == SuspendInit /\ [][EvalSuspend]_vars

----------------------------------------------------------------------------
(* isRecurringLate on drawn inputs *)

LateOffsets == {0, 9 * MsPerHour, 9 * MsPerHour + MsPerMinute - 1,
                9 * MsPerHour + MsPerMinute, MsPerDay - 1}
LateInstants == {day * MsPerDay + o : day \in 0..MaxDay, o \in LateOffsets}
LateTimes == {NoTime, [h |-> 9, m |-> 0], [h |-> 8, m |-> 30]}
LateDays == {{}, {0}, {0, 1}}
\* getFilterBounds: start of the first day, last millisecond of the last day
LateStarts == {NULL} \cup {MakeDate(day, 0, 0, 0, 0) : day \in 0..MaxDay}
LateEnds == {NULL} \cup {MakeDate(day, 23, 59, 59, 999) : day \in 0..MaxDay}

LateInit ==
    /\ AppInit
    /\ probe \in [kind : {"late"},
                  task : [isRecurring : BOOLEAN, recurringDays : LateDays,
                          recurringTime : LateTimes,
                          lastRecurringCompletion : {NULL, 9 * MsPerHour, MsPerDay},
                          isSuspended : BOOLEAN,
                          suspendedUntil : {NULL, 0}],
                  start : LateStarts, end : LateEnds, now : LateInstants]
    /\ out = NoProbe

EvalLate ==
    /\ probe.kind = "late"
    /\ out = NoProbe
    /\ out' = [kind |-> "late",
               late |-> IsRecurringLate(probe.task, probe.start, probe.end, probe.now)]
    /\ UNCHANGED <<appVars, probe>>

SpecLate == LateInit /\ [][EvalLate]_vars

----------------------------------------------------------------------------
(* the row of RecurringTasksModal and isRecurringLate on the same task; the *)
(* modal is rendered at now, and now is the instant of the report           *)

LiveInit ==
    /\ AppInit
    /\ probe \in [kind : {"live"},
                  task : [isRecurring : BOOLEAN, recurringDays : LateDays,
                          recurringTime : LateTimes,
                          lastRecurringCompletion : {NULL, 9 * MsPerHour, MsPerDay},
                          isSuspended : BOOLEAN,
                          suspendedUntil : {NULL, 0}],
                  start : LateStarts, end : LateEnds, now : LateInstants]
    /\ out = NoProbe

EvalLive ==
    /\ probe.kind = "live"
    /\ out = NoProbe
    /\ out' = [kind |-> "live",
               listed |-> TodaysRecurringTasks(<<probe.task>>, probe.now) # {},
               modalLate |-> ModalRowLate(probe.task, probe.now, probe.now),
               reportLate |-> IsRecurringLate(probe.task, probe.start, probe.end,
                                              probe.now)]
    /\ UNCHANGED <<appVars, probe>>

SpecLive == LiveInit /\ [][EvalLive]_vars

----------------------------------------------------------------------------
(* filteredTasks on drawn inputs *)

FilterOffsets == {0, MsPerDay - 1}
FilterInstants == {day * MsPerDay + o : day \in 0..MaxDay, o \in FilterOffsets}
FilterNows == {day * MsPerDay + 12 * MsPerHour : day \in 0..MaxDay}
FilterStarts == {NULL} \cup {MakeDate(day, 0, 0, 0, 0) : day \in 0..MaxDay}
FilterEnds == {NULL} \cup {MakeDate(day, 23, 59, 59, 999) : day \in 0..MaxDay}

\* non-recurring tasks: completedAt is drawn for Completed tasks only
StandardTasks ==
    [isRecurring : {FALSE}, recurringDays : {{}}, lastRecurringCompletion : {NULL},
     isSuspended : {FALSE}, suspendedUntil : {NULL},
     status : {COMPLETED}, deadline : {NULL} \cup FilterInstants,
     completedAt : {NULL} \cup FilterInstants, createdAt : FilterNows]
    \cup
    [isRecurring : {FALSE}, recurringDays : {{}}, lastRecurringCompletion : {NULL},
     isSuspended : {FALSE}, suspendedUntil : {NULL},
     status : {TODO, LATE, CANCELLED}, deadline : {NULL} \cup FilterInstants,
     completedAt : {NULL}, createdAt : FilterNows]

\* recurring tasks, with and without weekdays
RecurringTasks ==
    [isRecurring : {TRUE}, recurringDays : {{}, {0}, {1, 2}},
     lastRecurringCompletion : {NULL} \cup FilterNows,
     isSuspended : BOOLEAN, suspendedUntil : {NULL, 0, MsPerDay},
     status : {TODO}, deadline : {NULL, MakeDate(MaxDay, 23, 59, 59, 0)},
     completedAt : {NULL}, createdAt : {12 * MsPerHour}]

FilterInit ==
    /\ AppInit
    /\ probe \in [kind : {"filter"}, task : StandardTasks \cup RecurringTasks,
                  start : FilterStarts, end : FilterEnds, now : FilterNows]
    /\ out = NoProbe

EvalFilter ==
    /\ probe.kind = "filter"
    /\ out = NoProbe
    /\ out' = [kind |-> "filter",
               belongs |-> FilterBelongs(probe.task, probe.start, probe.end, probe.now)]
    /\ UNCHANGED <<appVars, probe>>

SpecFilter == FilterInit /\ [][EvalFilter]_vars

----------------------------------------------------------------------------
(* The metrics on drawn task lists *)

\* the task list holds at most MaxList tasks
MaxList == 2

MetricDeadlines == {NULL, MakeDate(0, 0, 0, 0, 0), MakeDate(MaxDay, 23, 59, 59, 0)}
MetricNows == {MakeDate(0, 12, 0, 0, 0), MakeDate(1, 12, 0, 0, 0)}
MetricStarts == {NULL, MakeDate(0, 0, 0, 0, 0)}
MetricEnds == {NULL, MakeDate(0, 23, 59, 59, 999), MakeDate(MaxDay, 23, 59, 59, 999)}

\* tasks as the application stores them: completedAt goes with Completed;
\* a recurring task has no deadline and may have been set to any status
\* the status buttons offer
MetricTasks ==
    [isRecurring : {FALSE}, recurringDays : {{}}, recurringTime : {NoTime},
     lastRecurringCompletion : {NULL}, isSuspended : {FALSE}, suspendedUntil : {NULL},
     status : {TODO, LATE, CANCELLED}, deadline : MetricDeadlines,
     completedAt : {NULL}, createdAt : {0}]
    \cup
    [isRecurring : {FALSE}, recurringDays : {{}}, recurringTime : {NoTime},
     lastRecurringCompletion : {NULL}, isSuspended : {FALSE}, suspendedUntil : {NULL},
     status : {COMPLETED}, deadline : MetricDeadlines,
     completedAt : {MakeDate(0, 9, 0, 0, 0)}, createdAt : {0}]
    \cup
    [isRecurring : {TRUE}, recurringDays : {{0}}, recurringTime : {NoTime, [h |-> 9, m |-> 0]},
     lastRecurringCompletion : {NULL, MakeDate(0, 9, 0, 0, 0)},
     isSuspended : {FALSE}, suspendedUntil : {NULL},
     status : {TODO}, deadline : {NULL},
     completedAt : {NULL}, createdAt : {0}]
    \cup
    [isRecurring : {TRUE}, recurringDays : {{0}}, recurringTime : {NoTime, [h |-> 9, m |-> 0]},
     lastRecurringCompletion : {NULL, MakeDate(0, 9, 0, 0, 0)},
     isSuspended : {FALSE}, suspendedUntil : {NULL},
     status : {COMPLETED}, deadline : {MakeDate(0, 9, 0, 0, 0)},
     completedAt : {MakeDate(0, 9, 0, 0, 0)}, createdAt : {0}]

MetricLists == UNION {[1..n -> MetricTasks] : n \in 0..MaxList}

MetricsInit ==
    /\ AppInit
    /\ probe \in [kind : {"metrics"}, tasks : MetricLists,
                  start : MetricStarts, end : MetricEnds, now : MetricNows]
    /\ out = NoProbe

EvalMetrics ==
    /\ probe.kind = "metrics"
    /\ out = NoProbe
    /\ LET taskList == FilteredTasks(probe.tasks, probe.start, probe.end, probe.now)
       IN  out' = [kind |-> "metrics",
                   taskList |-> taskList,
                   total |-> MetricsTotal(taskList),
                   recurringCompleted |->
                       RecurringCompletedCount(taskList, probe.start, probe.end),
                   standardCompleted |-> StandardCompletedCount(taskList),
                   completed |-> MetricsCompleted(taskList, probe.start, probe.end),
                   late |-> LateCount(taskList, probe.start, probe.end, probe.now)]
    /\ UNCHANGED <<appVars, probe>>

SpecMetrics == MetricsInit /\ [][EvalMetrics]_vars

----------------------------------------------------------------------------
(* saveEditing on a stored task, a suspended one included: the listener     *)
(* hands every stored field to the task it lists                            *)

SaveTasks ==
    [isRecurring : BOOLEAN, recurringDays : {{}, {0}},
     recurringTime : {NoTime, [h |-> 9, m |-> 0]},
     isSuspended : BOOLEAN,
     suspendedUntil : {NULL} \cup {MakeDate(day, 0, 0, 0, 0) : day \in 0..MaxDay}]

SaveInit ==
    /\ AppInit
    /\ probe \in [kind : {"save"}, task : SaveTasks, editIsRecurring : BOOLEAN]
    /\ out = NoProbe

EvalSave ==
    /\ probe.kind = "save"
    /\ out = NoProbe
    /\ out' = [kind |-> "save", task |-> SaveEditing(probe.task, probe.editIsRecurring)]
    /\ UNCHANGED <<appVars, probe>>

SpecSave == SaveInit /\ [][EvalSave]_vars

----------------------------------------------------------------------------
(* the scheduling step of the recurring branch on windows of whole days;    *)
(* an empty list of weekdays is truthy and passes `t.recurringDays`         *)

WindowLengths == {1, 3, 7, YearDays - 1, YearDays, YearDays + 1}
WeekdaySets == {{}, {0}, {3}, {6}, {1, 2}}

WindowInit ==
    /\ AppInit
    /\ probe \in {[kind |-> "window", days |-> ds, startDay |-> sd,
                    endDay |-> sd + len - 1] :
                     ds \in WeekdaySets, sd \in 0..MaxDay, len \in WindowLengths}
    /\ out = NoProbe

EvalWindow ==
    /\ probe.kind = "window"
    /\ out = NoProbe
    /\ out' = [kind |-> "window",
               included |-> ScheduledInRange(probe.days, probe.startDay, probe.endDay),
               scanned |-> ScanDays(probe.startDay, probe.endDay, probe.days)]
    /\ UNCHANGED <<appVars, probe>>

SpecWindow == WindowInit /\ [][EvalWindow]_vars

----------------------------------------------------------------------------
(* the late and todo buckets of one metrics computation: the clock is read  *)
(* at the top (today), again in the late filter and again, later, in the    *)
(* todo filter; the reads are in this order and time may pass between them  *)

BucketDeadline == MakeDate(0, 12, 0, 0, 0)
BucketInstants == {BucketDeadline - 1, BucketDeadline, BucketDeadline + 1}

BucketTasks ==
    [isRecurring : {FALSE}, recurringDays : {{}}, recurringTime : {NoTime},
     lastRecurringCompletion : {NULL}, isSuspended : {FALSE}, suspendedUntil : {NULL},
     status : {TODO, LATE, COMPLETED, CANCELLED}, deadline : {NULL, BucketDeadline}]
    \cup
    [isRecurring : {TRUE}, recurringDays : {{0}},
     recurringTime : {NoTime, [h |-> 11, m |-> 59]},
     lastRecurringCompletion : {NULL}, isSuspended : {FALSE}, suspendedUntil : {NULL},
     status : {TODO}, deadline : {NULL}]

BucketsInit ==
    /\ AppInit
    /\ probe \in [kind : {"buckets"}, task : BucketTasks, today : BucketInstants,
                  nowLate : BucketInstants, nowTodo : BucketInstants]
    /\ probe.today <= probe.nowLate
    /\ probe.nowLate <= probe.nowTodo
    /\ out = NoProbe

EvalBuckets ==
    /\ probe.kind = "buckets"
    /\ out = NoProbe
    /\ out' = [kind |-> "buckets",
               late |-> MetricsLate(probe.task, NULL, NULL, probe.nowLate),
               todo |-> StatusDistTodo(probe.task, NULL, NULL, probe.today,
                                       probe.nowTodo)]
    /\ UNCHANGED <<appVars, probe>>

SpecBuckets == BucketsInit /\ [][EvalBuckets]_vars

----------------------------------------------------------------------------
(* completionRate (Dashboard.tsx) as a function of the two counters *)

MaxTotal == 40

RateInit ==
    /\ AppInit
    /\ probe \in {[kind |-> "rate", completed |-> c, total |-> t] :
                     c \in 0..MaxTotal, t \in 0..MaxTotal}
    /\ probe.completed <= probe.total
    /\ out = NoProbe

EvalRate ==
    /\ probe.kind = "rate"
    /\ out = NoProbe
    /\ out' = [kind |-> "rate", rate |-> CompletionRate(probe.completed, probe.total)]
    /\ UNCHANGED <<appVars, probe>>

SpecRate == RateInit /\ [][EvalRate]_vars

----------------------------------------------------------------------------
(* Properties *)

Terminal(st) == st = COMPLETED \/ st = CANCELLED

\* C1: a stored task whose status is Completed or Cancelled has no running
\* timer (timerStartedAt is null), in every state the task operations reach.
C1_TerminalHasNoRunningTimer ==
    \A i \in DOMAIN db : Terminal(db[i].status) => db[i].timerStartedAt = NULL

\* a terminal task whose timer was running when the status was confirmed
C1_Witness ==
    \E i \in DOMAIN db :
        /\ Terminal(db[i].status)
        /\ autoStopped
        /\ db[i].timerStartedAt = NULL
        /\ db[i].elapsedTimeSeconds > 0

\* C2: in every stored record that handleCreateTask and handleUpdateTask
\* produce, completedAt is present exactly when the status is Completed.
C2_CompletedAtIffCompleted ==
    \A i \in DOMAIN db : (db[i].completedAt # NULL) <=> (db[i].status = COMPLETED)

\* an update has moved a task out of Completed and its completedAt is gone
C2_Witness ==
    /\ out.kind = "update"
    /\ out.from = COMPLETED
    /\ out.to # COMPLETED
    /\ \E i \in DOMAIN db : db[i].status = out.to /\ db[i].completedAt = NULL

\* C3: once the stored status of a task is Completed or Cancelled, no step
\* of the application changes it.
C3_TerminalIsAbsorbing ==
    [][\A i \in DOMAIN db : Terminal(db[i].status) => db'[i].status = db[i].status]_vars

\* a terminal task that a later operation (the star of its card) has written
C3_Witness ==
    \E i \in DOMAIN db : Terminal(db[i].status) /\ db[i].isPriority

\* C4: for one task and instants now1 <= now2, the accumulator at now2 is at
\* least its value at now1.
C4_ElapsedMonotone ==
    out.kind = "timer" => out.v2 >= out.v1

\* a running timer whose value grew between the two instants
C4_Witness ==
    /\ out.kind = "timer"
    /\ probe.task.timerStartedAt # NULL
    /\ probe.now1 < probe.now2
    /\ out.v2 > out.v1

\* C5: with a running timer whose start is later than now, the accumulator
\* returns exactly the stored base, never less and never a negative number.
C5_SkewClampsToBase ==
    (/\ out.kind = "timer"
     /\ probe.task.timerStartedAt # NULL
     /\ probe.task.timerStartedAt > probe.now1)
    => (out.v1 = probe.task.elapsedTimeSeconds /\ out.v1 >= 0)

\* C6: the update that stops a running timer at instant t stores
\* elapsedTimeSeconds = base + floor((t - start) / 1000) and timerStartedAt =
\* null, so the accumulator gives the same value on the stopped task at t.
C6_StopIsContinuous ==
    [][\A i \in DOMAIN db :
          (db[i].timerStartedAt # NULL /\ db'[i].timerStartedAt = NULL)
          => /\ db'[i].elapsedTimeSeconds =
                   db[i].elapsedTimeSeconds
                     + ((clock - db[i].timerStartedAt) \div MsPerSecond)
             /\ CalculateCurrentTaskTime(db'[i], clock')
                   = CalculateCurrentTaskTime(db[i], clock)]_vars

\* a task still in progress whose timer was paused after whole seconds ran
C6_Witness ==
    \E i \in DOMAIN db :
        /\ db[i].status = TODO
        /\ db[i].timerStartedAt = NULL
        /\ db[i].elapsedTimeSeconds > 0

\* C7: getDaysOverdue is 0 exactly when now <= deadline, and otherwise the
\* least whole number of days covering now - deadline, which is at least 1;
\* a deadline at 09:00 and a now two days later at 08:00 give 2.
C7_DaysOverdueIsCeil ==
    (out.kind = "deadline" /\ probe.task.deadline # NULL)
    => LET d == probe.task.deadline
           n == probe.now
       IN  /\ (out.days = 0) <=> (n <= d)
           /\ n > d => /\ out.days >= 1
                       /\ (out.days - 1) * MsPerDay < n - d
                       /\ n - d <= out.days * MsPerDay
           /\ (d = MakeDate(0, 9, 0, 0, 0) /\ n = MakeDate(2, 8, 0, 0, 0))
                 => out.days = 2

\* the 47-hour example
C7_Witness ==
    /\ out.kind = "deadline"
    /\ probe.task.deadline = MakeDate(0, 9, 0, 0, 0)
    /\ probe.now = MakeDate(2, 8, 0, 0, 0)
    /\ out.days = 2

\* C8: a task without a deadline is never overdue, due soon or due today,
\* has 0 days overdue and is not counted late by the deadline branch of
\* metrics.late.
C8_NoDeadlineNeverLate ==
    (out.kind = "deadline" /\ probe.task.deadline = NULL)
    => /\ ~out.past
       /\ ~out.soon
       /\ ~out.today
       /\ out.days = 0
       /\ ~out.late

\* a task in progress without a deadline has been evaluated
C8_Witness ==
    /\ out.kind = "deadline"
    /\ probe.task.deadline = NULL
    /\ probe.task.status = TODO
    /\ ~out.late

\* C9: with both flags set and a bound, isTaskSuspended is true exactly while
\* now's calendar day is on or before the bound's day; with a flag off it is
\* false; with both flags set and no bound it is true.
C9_SuspendedThroughBoundDay ==
    out.kind = "suspend"
    => LET t == probe.task
       IN  IF ~t.isRecurring \/ ~t.isSuspended THEN ~out.suspended
           ELSE IF t.suspendedUntil = NULL THEN out.suspended
           ELSE out.suspended <=> (DayOf(probe.now) <= DayOf(t.suspendedUntil))

\* suspended at an instant of the bound's day later than the bound itself
C9_Witness ==
    /\ out.kind = "suspend"
    /\ out.suspended
    /\ probe.task.suspendedUntil # NULL
    /\ DayOf(probe.now) = DayOf(probe.task.suspendedUntil)
    /\ probe.now > probe.task.suspendedUntil

\* what C10 and its amendment share
SuspendedAt(t, n) ==
    t.isSuspended /\ (t.suspendedUntil = NULL \/ DayOf(n) <= DayOf(t.suspendedUntil))
DueAndOpen(t, n) ==
    /\ ~SuspendedAt(t, n)
    /\ GetDay(n) \in t.recurringDays
    /\ ~(t.lastRecurringCompletion # NULL /\ DayOf(t.lastRecurringCompletion) = DayOf(n))
    /\ t.recurringTime # NoTime
\* minute of the day of an instant, and of the cutoff "HH:MM"
MinuteOfDay(n) == (n % MsPerDay) \div MsPerMinute
CutoffMinute(t) == t.recurringTime.h * 60 + t.recurringTime.m

\* C10 as stated: isRecurringLate is true exactly when the task is not
\* suspended, scheduled today, not done today, has a cutoff, and the time of
\* day (hour:minute) is strictly after the cutoff.
C10_LateIffPastCutoff ==
    (out.kind = "late" /\ probe.task.isRecurring)
    => (out.late <=> (/\ DueAndOpen(probe.task, probe.now)
                      /\ MinuteOfDay(probe.now) > CutoffMinute(probe.task)))

\* C10 amended: isRecurringLate is true exactly when, in addition, now lies
\* inside the report window (an empty bound counting as satisfied).
C10_LateIffInViewPastCutoffMinute ==
    (out.kind = "late" /\ probe.task.isRecurring)
    => (out.late <=> (/\ DueAndOpen(probe.task, probe.now)
                      /\ (probe.start = NULL \/ probe.start <= probe.now)
                      /\ (probe.end = NULL \/ probe.end >= probe.now)
                      /\ MinuteOfDay(probe.now) > CutoffMinute(probe.task)))

\* late in the minute after the cutoff, inside a window with both bounds set
C10_Witness ==
    /\ out.kind = "late"
    /\ out.late
    /\ probe.task.recurringTime = [h |-> 9, m |-> 0]
    /\ probe.now % MsPerDay = 9 * MsPerHour + MsPerMinute
    /\ probe.start # NULL
    /\ probe.end # NULL

\* C11: a toggle of the daily completion sets the slot to now when the slot
\* is empty or holds an instant of another calendar day than today's, and
\* empties it when the slot holds an instant of today; one slot, so the task
\* is counted at most once.
C11_ToggleSetsOrClearsSlot ==
    [][\A i \in DOMAIN db :
          db'[i].lastRecurringCompletion # db[i].lastRecurringCompletion
          => IF \/ db[i].lastRecurringCompletion = NULL
                \/ DayOf(db[i].lastRecurringCompletion) # DayOf(clock)
             THEN db'[i].lastRecurringCompletion = clock
             ELSE db'[i].lastRecurringCompletion = NULL]_vars

\* C12: in a current window (start <= now <= end, an absent bound counting
\* as satisfied, both absent included) a recurring task that is suspended now
\* does not belong to the filtered set.
C12_SuspendedExcludedFromCurrentWindow ==
    (/\ out.kind = "filter"
     /\ probe.task.isRecurring
     /\ SuspendedAt(probe.task, probe.now)
     /\ IsCurrentView(probe.start, probe.end, probe.now))
    => ~out.belongs

\* what C13 states about a recurring task and a window
CompletionInWindow(t, start, end) ==
    /\ t.lastRecurringCompletion # NULL
    /\ start <= t.lastRecurringCompletion
    /\ t.lastRecurringCompletion <= end
SomeDayScheduled(t, start, end) ==
    \E d \in DayOf(start)..DayOf(end) : d % 7 \in t.recurringDays

\* C13: a recurring task that suspension does not exclude belongs to a window
\* with both bounds set (fewer than 365 days) exactly when its last
\* completion lies in [start, end] or some calendar day of the window has its
\* weekday in recurringDays; with exactly one bound absent it always belongs.
C13_RecurringBelongsIffDoneOrScheduled ==
    (/\ out.kind = "filter"
     /\ probe.task.isRecurring
     /\ ~(IsCurrentView(probe.start, probe.end, probe.now)
          /\ SuspendedAt(probe.task, probe.now)))
    => /\ (probe.start # NULL /\ probe.end # NULL)
            => (out.belongs <=> \/ CompletionInWindow(probe.task, probe.start, probe.end)
                                \/ SomeDayScheduled(probe.task, probe.start, probe.end))
       /\ ((probe.start = NULL) # (probe.end = NULL)) => out.belongs

\* C14: a non-recurring Completed task belongs to a window with at least one
\* bound set exactly when completedAt is present and its calendar day is
\* neither before the start day nor after the end day, whatever its deadline.
C14_CompletedBelongsIffCompletedInWindow ==
    (/\ out.kind = "filter"
     /\ ~probe.task.isRecurring
     /\ probe.task.status = COMPLETED
     /\ (probe.start # NULL \/ probe.end # NULL))
    => (out.belongs <=>
          /\ probe.task.completedAt # NULL
          /\ (probe.start = NULL \/ DayOf(probe.start) <= DayOf(probe.task.completedAt))
          /\ (probe.end = NULL \/ DayOf(probe.task.completedAt) <= DayOf(probe.end)))

\* completed in the last millisecond of the end day: inside; the window is
\* current and the deadline lies before it
C14_Witness ==
    /\ out.kind = "filter"
    /\ ~probe.task.isRecurring
    /\ probe.task.status = COMPLETED
    /\ probe.start # NULL
    /\ probe.end # NULL
    /\ probe.task.completedAt = probe.end
    /\ probe.task.deadline # NULL
    /\ probe.task.deadline < probe.start
    /\ IsCurrentView(probe.start, probe.end, probe.now)
    /\ out.belongs

\* a non-recurring task that is neither Completed nor Cancelled
ActiveStandard(t) == ~t.isRecurring /\ t.status \in {TODO, LATE}

\* C15: in a current window a non-recurring active task belongs exactly when
\* it has no deadline or its deadline is not after end; a deadline before
\* start is included, a deadline after end is excluded.
C15_ActiveCurrentBelongsIffNotAfterEnd ==
    (/\ out.kind = "filter"
     /\ ActiveStandard(probe.task)
     /\ IsCurrentView(probe.start, probe.end, probe.now))
    => (out.belongs <=> \/ probe.task.deadline = NULL
                        \/ probe.end = NULL
                        \/ probe.task.deadline <= probe.end)

\* overdue from before the window, shown in the current window
C15_Witness ==
    /\ out.kind = "filter"
    /\ ActiveStandard(probe.task)
    /\ IsCurrentView(probe.start, probe.end, probe.now)
    /\ probe.start # NULL
    /\ probe.end # NULL
    /\ probe.task.deadline # NULL
    /\ probe.task.deadline < probe.start
    /\ out.belongs

\* the instant that places an active task in a window that is not current
PlacingInstant(t) == IF t.deadline # NULL THEN t.deadline ELSE t.createdAt

\* C16: in a window that does not contain now, a non-recurring active task
\* belongs only if its deadline (its creation instant when it has none) falls
\* on a calendar day of the window; being overdue now does not bring it in.
C16_ActiveHistoricBelongsOnlyIfInWindow ==
    (/\ out.kind = "filter"
     /\ ActiveStandard(probe.task)
     /\ ~IsCurrentView(probe.start, probe.end, probe.now)
     /\ out.belongs)
    => /\ (probe.start = NULL \/ DayOf(probe.start) <= DayOf(PlacingInstant(probe.task)))
       /\ (probe.end = NULL \/ DayOf(PlacingInstant(probe.task)) <= DayOf(probe.end))

\* a past window that holds the deadline of a task overdue now
C16_Witness ==
    /\ out.kind = "filter"
    /\ ActiveStandard(probe.task)
    /\ probe.start # NULL
    /\ probe.end # NULL
    /\ probe.end < probe.now
    /\ probe.task.deadline # NULL
    /\ probe.start <= probe.task.deadline
    /\ probe.task.deadline <= probe.end
    /\ out.belongs

\* number of tasks of a list that satisfy a condition
CountOf(list, Cond(_)) == Cardinality({i \in DOMAIN list : Cond(list[i])})

\* C17: standardCompleted counts exactly the non-recurring tasks of the
\* filtered set whose status is Completed, no recurring task among them, and
\* completed = standardCompleted + recurringCompletedInPeriod.
C17_StandardCompletedCountsNonRecurring ==
    out.kind = "metrics"
    => LET StandardDone(t) == ~t.isRecurring /\ t.status = COMPLETED
       IN  /\ out.standardCompleted = CountOf(out.taskList, StandardDone)
           /\ out.completed = out.standardCompleted + out.recurringCompleted

\* C18: of the non-recurring tasks of the filtered set, late counts exactly
\* those that are Active with now past their deadline or whose stored status
\* is Late, with or without a deadline; never a Completed or Cancelled one.
\* (The recurring tasks it counts are those isRecurringLate accepts.)
C18_LateCountsOverdueOrStoredLate ==
    out.kind = "metrics"
    => LET StandardLate(t) ==
               /\ ~t.isRecurring
               /\ \/ t.status = LATE
                  \/ t.status = TODO /\ t.deadline # NULL /\ probe.now > t.deadline
           RecurringLate(t) ==
               t.isRecurring /\ IsRecurringLate(t, probe.start, probe.end, probe.now)
       IN  out.late = CountOf(out.taskList, StandardLate)
                        + CountOf(out.taskList, RecurringLate)

\* 100 * completed / total rounded to the nearest integer, one half going up
RoundedPercentage(completed, total) ==
    (2 * 100 * completed + total) \div (2 * total)

\* C19: completionRate is 100 * completed / total rounded to the nearest
\* integer when total is positive, and 0 when total is 0.
C19_RateIsRoundedPercentage ==
    out.kind = "rate"
    => out.rate = IF probe.total > 0
                  THEN RoundedPercentage(probe.completed, probe.total)
                  ELSE 0

\* C20: in every state that creating and editing tasks reach, a stored task
\* with the recurrence flag set and a status that is neither Completed nor
\* Cancelled has at least one recurring weekday.
C20_ActiveRecurringHasWeekdays ==
    \A i \in DOMAIN db :
        (db[i].isRecurring /\ ~Terminal(db[i].status)) => db[i].recurringDays # {}

\* C21: for every recurring task listed by the recurring-tasks modal as
\* scheduled today, suspended or not, and every now inside the report window,
\* the lateness of the modal's row equals the lateness isRecurringLate
\* computes for the report.
C21_LiveAndReportLatenessAgree ==
    (/\ out.kind = "live"
     /\ out.listed
     /\ IsTodayInView(probe.start, probe.end, probe.now))
    => out.modalLate = out.reportLate

\* the task copies a reader can hold: the stored records, the task list and
\* the modal's selected task
ReaderCopies ==
    {db[i] : i \in DOMAIN db} \cup {tasks[i] : i \in DOMAIN tasks}
      \cup (IF selectedTask \in {NoTask, OtherTask} THEN {} ELSE {selectedTask})

\* C22: no reader (stored record, task list, the modal's selected-task copy)
\* ever holds a task with status Completed and no completedAt, or a
\* Completed task with a running timer.
C22_CompletedCopiesAreWhole ==
    \A t \in ReaderCopies :
        t.status = COMPLETED => (t.completedAt # NULL /\ t.timerStartedAt = NULL)

C24_CompletionDatesUndatedTask ==
    [][\A i \in DOMAIN db :
          /\ (db[i].status # COMPLETED /\ db'[i].status = COMPLETED)
             => db'[i].deadline = IF db[i].deadline = NULL THEN clock
                                  ELSE db[i].deadline
          /\ (db[i].status # CANCELLED /\ db'[i].status = CANCELLED)
             => db'[i].deadline = db[i].deadline]_vars

\* a task completed without a deadline: its deadline is the instant of the
\* completion, which is no instant a date or time input produces
C24_Witness ==
    \E i \in DOMAIN db :
        /\ db[i].status = COMPLETED
        /\ db[i].deadline # NULL
        /\ db[i].deadline = db[i].completedAt
        /\ db[i].deadline % MsPerMinute # 0
        /\ db[i].deadline % MsPerMinute # MsPerMinute - 1

\* C25: the update that moves a stored task into Completed or Cancelled
\* stores its priority flag as false, whatever the flag was before.
C25_TerminalTransitionClearsPriority ==
    [][\A i \in DOMAIN db :
          (~Terminal(db[i].status) /\ Terminal(db'[i].status))
          => ~db'[i].isPriority]_vars

\* a terminal task whose priority flag was set when the status was confirmed
C25_Witness ==
    \E i \in DOMAIN db :
        /\ Terminal(db[i].status)
        /\ priorityCleared
        /\ ~db[i].isPriority

\* C26: the task an edit save writes has isSuspended set whenever its
\* suspendedUntil is not null, and has the recurrence flag set whenever
\* isSuspended is set; saving with recurrence off clears both suspension fields.
C26_SavedSuspensionIsConsistent ==
    out.kind = "save"
    => /\ out.task.suspendedUntil # NULL => out.task.isSuspended
       /\ out.task.isSuspended => out.task.isRecurring
       /\ ~probe.editIsRecurring
          => (~out.task.isSuspended /\ out.task.suspendedUntil = NULL)

\* a task suspended until a date, saved with recurrence switched off
C26_Witness ==
    /\ out.kind = "save"
    /\ probe.task.isRecurring
    /\ probe.task.isSuspended
    /\ probe.task.suspendedUntil # NULL
    /\ ~probe.editIsRecurring
    /\ ~out.task.isRecurring
    /\ ~out.task.isSuspended
    /\ out.task.suspendedUntil = NULL

\* C27: after any sequence of starts and stops of the timer of one task at
\* non-decreasing instants, the stored elapsedTimeSeconds is the sum over the
\* closed running intervals of the whole seconds of each; a start leaves it
\* unchanged and no press decreases it.
C27_ElapsedIsSumOfWholeSeconds ==
    [][probe.kind = "toggle"
       => /\ probe'.task.elapsedTimeSeconds = probe'.seconds
          /\ probe.task.timerStartedAt = NULL
             => probe'.task.elapsedTimeSeconds = probe.task.elapsedTimeSeconds
          /\ probe'.task.elapsedTimeSeconds >= probe.task.elapsedTimeSeconds]_vars

\* two closed intervals whose whole seconds add up to less than the whole
\* seconds of their total length
C27_Witness ==
    /\ probe.kind = "toggle"
    /\ probe.intervals >= 2
    /\ probe.task.timerStartedAt = NULL
    /\ probe.task.elapsedTimeSeconds = probe.seconds
    /\ probe.seconds > 0
    /\ (probe.seconds + 1) * MsPerSecond <= probe.ms

\* C28: for every filtered set of tasks the application can store, a
\* recurring task set to Completed included, the metrics have
\* completed <= total, so that completionRate is between 0 and 100.
C28_CompletedAtMostTotal ==
    out.kind = "metrics"
    => /\ out.completed <= out.total
       /\ CompletionRate(out.completed, out.total) \in 0..100

\* C29: in one metrics computation a non-recurring task with status Active
\* and a deadline is counted in exactly one of statusDist.todo and late, also
\* when the clock passes the deadline between the reads of the two counts.
C29_ActiveDatedTaskInOneBucket ==
    (/\ out.kind = "buckets"
     /\ ~probe.task.isRecurring
     /\ probe.task.status = TODO
     /\ probe.task.deadline # NULL)
    => (out.todo # out.late)

\* C30: in every state the operations of the application reach, a stored
\* task with status Completed or Cancelled has its priority flag false.
C30_TerminalNeverPriority ==
    \A i \in DOMAIN db : Terminal(db[i].status) => ~db[i].isPriority

====
